---- MODULE Spec2Model ----
(***************************************************************************)
(* Model of src/vox_loader.rs: the cursor-based decoder of MagicaVoxel     *)
(* .vox buffers (VoxLoader::new / load / read_chunk and the primitive      *)
(* reads).                                                                 *)
(*                                                                         *)
(* A u32 is the pair <<hi, lo>> of its two 16-bit halves, so that the full *)
(* 32-bit range and wrap-around are represented exactly.  A String of the  *)
(* source is the sequence of its code points.  A byte is an integer in     *)
(* 0..255.  Cursor offsets are 0-based as in the source; data[i+1] is the  *)
(* byte at offset i.                                                       *)
(***************************************************************************)
EXTENDS Integers, Sequences, FiniteSets, TLC

VARIABLES
    data,             \* VoxLoader.data: the bytes of the file
    offset,           \* VoxLoader.offset: the read cursor
    size,             \* VoxLoader.size
    voxels,           \* VoxLoader.voxels: the voxel layers
    palette,          \* VoxLoader.palette
    pc,               \* position of the decode: load, chunk, return, done, panic
    stack,            \* the active read_chunk calls, innermost last
    overflow_checks,  \* the build's u32 overflow checks: "unknown" until an overflow shows
                      \* them, then "off" (the arithmetic wraps); with them on it panics
    tree,             \* names of the child chunks the file was assembled from
    defect,           \* how the file deviates from a well-formed one
    xyziLog,          \* payload offsets of the XYZI chunks the reader dispatched on
    rgbaLog,          \* payload offset and declared length of the RGBA chunks dispatched on
    shortRead,        \* a primitive read needed more bytes than remained
    wrapped           \* the child accounting of a MAIN loop left the range of u32

vars == <<data, offset, size, voxels, palette, pc, stack, overflow_checks,
          tree, defect, xyziLog, rgbaLog, shortRead, wrapped>>

-----------------------------------------------------------------------------
(* Bounds of the model *)

\* the largest number of child chunks under the root MAIN chunk of a file
MaxChildren == 2

-----------------------------------------------------------------------------
(* u32 arithmetic *)

Half == 65536

U32(n) == <<n \div Half, n % Half>>

Zero == U32(0)

\* a + b in u32, with the overflow flag of the checked addition
U32Add(a, b) ==
    LET lo == a[2] + b[2]
        hi == a[1] + b[1] + (lo \div Half)
    IN  [val |-> <<hi % Half, lo % Half>>, overflow |-> hi >= Half]

\* a - b in u32, with the overflow flag of the checked subtraction
U32Sub(a, b) ==
    LET borrow == IF a[2] < b[2] THEN 1 ELSE 0
        lo == a[2] + borrow * Half - b[2]
        hi == a[1] - b[1] - borrow
    IN  [val |-> <<hi % Half, lo>>, overflow |-> hi < 0]

\* min(v, n) for a u32 v and a natural n < 65536
MinNat(v, n) == IF v[1] > 0 \/ v[2] >= n THEN n ELSE v[2]

\* the u32 v is the natural number n
IsNat(v, n) == v = U32(n)

-----------------------------------------------------------------------------
(* Constants of the source *)

\* the 12 bytes of a chunk header counted in the child accounting
HeaderLen == 12

\* the number of palette entries
PaletteLen == 256

TagMAIN == <<77, 65, 73, 78>>
TagSIZE == <<83, 73, 90, 69>>
TagXYZI == <<88, 89, 90, 73>>
TagRGBA == <<82, 71, 66, 65>>

DefaultPalette ==
    <<
       <<0,0>>, <<65535,65535>>, <<65535,52479>>, <<65535,39423>>, <<65535,26367>>, <<65535,13311>>,
       <<65535,255>>, <<65484,65535>>, <<65484,52479>>, <<65484,39423>>, <<65484,26367>>, <<65484,13311>>,
       <<65484,255>>, <<65433,65535>>, <<65433,52479>>, <<65433,39423>>, <<65433,26367>>, <<65433,13311>>,
       <<65433,255>>, <<65382,65535>>, <<65382,52479>>, <<65382,39423>>, <<65382,26367>>, <<65382,13311>>,
       <<65382,255>>, <<65331,65535>>, <<65331,52479>>, <<65331,39423>>, <<65331,26367>>, <<65331,13311>>,
       <<65331,255>>, <<65280,65535>>, <<65280,52479>>, <<65280,39423>>, <<65280,26367>>, <<65280,13311>>,
       <<65280,255>>, <<52479,65535>>, <<52479,52479>>, <<52479,39423>>, <<52479,26367>>, <<52479,13311>>,
       <<52479,255>>, <<52428,65535>>, <<52428,52479>>, <<52428,39423>>, <<52428,26367>>, <<52428,13311>>,
       <<52428,255>>, <<52377,65535>>, <<52377,52479>>, <<52377,39423>>, <<52377,26367>>, <<52377,13311>>,
       <<52377,255>>, <<52326,65535>>, <<52326,52479>>, <<52326,39423>>, <<52326,26367>>, <<52326,13311>>,
       <<52326,255>>, <<52275,65535>>, <<52275,52479>>, <<52275,39423>>, <<52275,26367>>, <<52275,13311>>,
       <<52275,255>>, <<52224,65535>>, <<52224,52479>>, <<52224,39423>>, <<52224,26367>>, <<52224,13311>>,
       <<52224,255>>, <<39423,65535>>, <<39423,52479>>, <<39423,39423>>, <<39423,26367>>, <<39423,13311>>,
       <<39423,255>>, <<39372,65535>>, <<39372,52479>>, <<39372,39423>>, <<39372,26367>>, <<39372,13311>>,
       <<39372,255>>, <<39321,65535>>, <<39321,52479>>, <<39321,39423>>, <<39321,26367>>, <<39321,13311>>,
       <<39321,255>>, <<39270,65535>>, <<39270,52479>>, <<39270,39423>>, <<39270,26367>>, <<39270,13311>>,
       <<39270,255>>, <<39219,65535>>, <<39219,52479>>, <<39219,39423>>, <<39219,26367>>, <<39219,13311>>,
       <<39219,255>>, <<39168,65535>>, <<39168,52479>>, <<39168,39423>>, <<39168,26367>>, <<39168,13311>>,
       <<39168,255>>, <<26367,65535>>, <<26367,52479>>, <<26367,39423>>, <<26367,26367>>, <<26367,13311>>,
       <<26367,255>>, <<26316,65535>>, <<26316,52479>>, <<26316,39423>>, <<26316,26367>>, <<26316,13311>>,
       <<26316,255>>, <<26265,65535>>, <<26265,52479>>, <<26265,39423>>, <<26265,26367>>, <<26265,13311>>,
       <<26265,255>>, <<26214,65535>>, <<26214,52479>>, <<26214,39423>>, <<26214,26367>>, <<26214,13311>>,
       <<26214,255>>, <<26163,65535>>, <<26163,52479>>, <<26163,39423>>, <<26163,26367>>, <<26163,13311>>,
       <<26163,255>>, <<26112,65535>>, <<26112,52479>>, <<26112,39423>>, <<26112,26367>>, <<26112,13311>>,
       <<26112,255>>, <<13311,65535>>, <<13311,52479>>, <<13311,39423>>, <<13311,26367>>, <<13311,13311>>,
       <<13311,255>>, <<13260,65535>>, <<13260,52479>>, <<13260,39423>>, <<13260,26367>>, <<13260,13311>>,
       <<13260,255>>, <<13209,65535>>, <<13209,52479>>, <<13209,39423>>, <<13209,26367>>, <<13209,13311>>,
       <<13209,255>>, <<13158,65535>>, <<13158,52479>>, <<13158,39423>>, <<13158,26367>>, <<13158,13311>>,
       <<13158,255>>, <<13107,65535>>, <<13107,52479>>, <<13107,39423>>, <<13107,26367>>, <<13107,13311>>,
       <<13107,255>>, <<13056,65535>>, <<13056,52479>>, <<13056,39423>>, <<13056,26367>>, <<13056,13311>>,
       <<13056,255>>, <<255,65535>>, <<255,52479>>, <<255,39423>>, <<255,26367>>, <<255,13311>>,
       <<255,255>>, <<204,65535>>, <<204,52479>>, <<204,39423>>, <<204,26367>>, <<204,13311>>,
       <<204,255>>, <<153,65535>>, <<153,52479>>, <<153,39423>>, <<153,26367>>, <<153,13311>>,
       <<153,255>>, <<102,65535>>, <<102,52479>>, <<102,39423>>, <<102,26367>>, <<102,13311>>,
       <<102,255>>, <<51,65535>>, <<51,52479>>, <<51,39423>>, <<51,26367>>, <<51,13311>>,
       <<51,255>>, <<0,65535>>, <<0,52479>>, <<0,39423>>, <<0,26367>>, <<0,13311>>,
       <<60928,255>>, <<56576,255>>, <<47872,255>>, <<43520,255>>, <<34816,255>>, <<30464,255>>,
       <<21760,255>>, <<17408,255>>, <<8704,255>>, <<4352,255>>, <<238,255>>, <<221,255>>,
       <<187,255>>, <<170,255>>, <<136,255>>, <<119,255>>, <<85,255>>, <<68,255>>,
       <<34,255>>, <<17,255>>, <<0,61183>>, <<0,56831>>, <<0,48127>>, <<0,43775>>,
       <<0,35071>>, <<0,30719>>, <<0,22015>>, <<0,17663>>, <<0,8959>>, <<0,4607>>,
       <<61166,61183>>, <<56797,56831>>, <<48059,48127>>, <<43690,43775>>, <<34952,35071>>, <<30583,30719>>,
       <<21845,22015>>, <<17476,17663>>, <<8738,8959>>, <<4369,4607>>
    >>

-----------------------------------------------------------------------------
(* Primitive reads.  Each returns ok = FALSE where the source panics.      *)

\* variant: an index past the end yields zero
Index_unchecked(d, i) ==
    IF i < Len(d) THEN [ok |-> TRUE, val |-> d[i + 1]]
                  ELSE [ok |-> TRUE, val |-> 0]

\* self.data[i]: the bounds-checked index of Vec<u8>
Index(d, i) ==
    IF i < Len(d) THEN [ok |-> TRUE, val |-> d[i + 1]]
                  ELSE [ok |-> FALSE, val |-> 0]

read_byte(d, off) ==
    LET r == Index(d, off)
    IN  [ok |-> r.ok, val |-> r.val, off |-> IF r.ok THEN off + 1 ELSE off]

\* the loop "for _ in 0..4" of read_string and read_int: four single reads at
\* off, off + 1, off + 2, off + 3, the cursor stopping at the first that fails
Read4(d, off) ==
    LET b1 == Index(d, off)
        b2 == Index(d, off + 1)
        b3 == Index(d, off + 2)
        b4 == Index(d, off + 3)
        n == IF ~b1.ok THEN 0 ELSE IF ~b2.ok THEN 1 ELSE IF ~b3.ok THEN 2
             ELSE IF ~b4.ok THEN 3 ELSE 4
    IN  [ok |-> n = 4, off |-> off + n, bytes |-> <<b1.val, b2.val, b3.val, b4.val>>]

\* each byte cast to a char, collected into a String
read_string(d, off) ==
    LET r == Read4(d, off)
    IN  [ok |-> r.ok, off |-> r.off, val |-> r.bytes]

BigEndian(b) == <<b[1] * 256 + b[2], b[3] * 256 + b[4]>>

LittleEndian(b) == <<b[4] * 256 + b[3], b[2] * 256 + b[1]>>

read_int(d, off, big_endian) ==
    LET r == Read4(d, off)
    IN  [ok |-> r.ok, off |-> r.off,
         val |-> IF big_endian THEN BigEndian(r.bytes) ELSE LittleEndian(r.bytes)]

\* Voxel { x: read_byte(), y: read_byte(), z: read_byte(), c: read_byte() }
ReadVoxel(d, off) ==
    [x |-> read_byte(d, off).val, y |-> read_byte(d, off + 1).val,
     z |-> read_byte(d, off + 2).val, c |-> read_byte(d, off + 3).val]

\* the number of whole 4-byte reads a loop of `want` reads completes at off
Fit(d, off, want) ==
    LET room == (Len(d) - off) \div 4
    IN  MinNat(want, room)

-----------------------------------------------------------------------------
(* The files decoded: "VOX ", a version, a root MAIN chunk and its children. *)

LE32(n) == <<n % 256, (n \div 256) % 256, (n \div 65536) % 256, n \div 16777216>>

ChunkBytes(tag, length, child_length, payload) ==
    tag \o LE32(length) \o LE32(child_length) \o payload

TagPACK == <<80, 65, 67, 75>>

Colours(seed) == [j \in 1..(4 * PaletteLen) |-> (7 * j + seed) % 256]

\* an unrecognized chunk whose payload has the layout of an RGBA chunk
\* declaring content length l
Decoy(l) == ChunkBytes(TagPACK, 4 * PaletteLen + HeaderLen, 0,
                       ChunkBytes(TagRGBA, l, 0, Colours(101)))

ItemNames == {"SIZE", "XYZI2", "XYZI1", "RGBA", "RGBA0", "PACK0", "PACK4",
              "MAIN1", "DECOY0", "DECOY1024", "PACKBIG"}

ItemBytes(name) ==
    CASE name = "SIZE"  -> ChunkBytes(TagSIZE, 12, 0, LE32(2) \o LE32(3) \o LE32(4))
      [] name = "XYZI2" -> ChunkBytes(TagXYZI, 12, 0, LE32(2) \o <<1, 2, 3, 10, 4, 5, 6, 20>>)
      [] name = "XYZI1" -> ChunkBytes(TagXYZI, 8, 0, LE32(1) \o <<7, 8, 9, 30>>)
      [] name = "RGBA"  -> ChunkBytes(TagRGBA, 4 * PaletteLen, 0, Colours(3))
      [] name = "RGBA0" -> ChunkBytes(TagRGBA, 0, 0, <<>>)
      [] name = "PACK0" -> ChunkBytes(TagPACK, 0, 0, <<>>)
      [] name = "PACK4" -> ChunkBytes(TagPACK, 4, 0, LE32(1))
      [] name = "MAIN1" -> ChunkBytes(TagMAIN, 0, HeaderLen, ChunkBytes(TagPACK, 0, 0, <<>>))
      [] name = "DECOY0" -> Decoy(0)
      [] name = "DECOY1024" -> Decoy(4 * PaletteLen)
      [] name = "PACKBIG" -> TagPACK \o <<244, 255, 255, 255>> \o LE32(0)

\* content_length + 12 of a child, modulo 2^32
ItemAccount(name) ==
    CASE name = "MAIN1" -> HeaderLen
      [] name = "PACKBIG" -> 0
      [] OTHER -> Len(ItemBytes(name))

\* the child's declared content length is the length of its payload and it
\* has no children of its own
ItemPlain(name) == name \notin {"MAIN1", "PACKBIG"}

RECURSIVE Concat(_)
Concat(items) ==
    IF items = <<>> THEN <<>> ELSE ItemBytes(Head(items)) \o Concat(Tail(items))

RECURSIVE Account(_)
Account(items) ==
    IF items = <<>> THEN 0 ELSE ItemAccount(Head(items)) + Account(Tail(items))

Trees == UNION {[1..n -> ItemNames] : n \in 0..MaxChildren}

Defects == {"none", "shortN", "cutTail"}

\* the children length the root MAIN chunk declares
DeclaredN(items, dfct) ==
    IF dfct = "shortN" THEN Account(items) - 4 ELSE Account(items)

FileBytes(items, dfct) ==
    LET whole == <<86, 79, 88, 32>> \o LE32(150)
                 \o ChunkBytes(TagMAIN, 0, DeclaredN(items, dfct), Concat(items))
    IN  IF dfct = "cutTail" THEN SubSeq(whole, 1, Len(whole) - 2) ELSE whole

-----------------------------------------------------------------------------
(* State after VoxLoader { .. } and file.read_to_end(&mut self.data) *)

Init ==
    /\ tree \in Trees
    /\ defect \in Defects
    /\ defect = "shortN" => Account(tree) >= 4
    /\ data = FileBytes(tree, defect)
    /\ overflow_checks = "unknown"
    /\ offset = 0
    /\ size = [x |-> Zero, y |-> Zero, z |-> Zero]
    /\ voxels = <<>>
    /\ palette = <<>>
    /\ pc = "load"
    /\ stack = <<>>
    /\ xyziLog = <<>>
    /\ rgbaLog = <<>>
    /\ shortRead = FALSE
    /\ wrapped = FALSE

Top == stack[Len(stack)]

Pop(s) == SubSeq(s, 1, Len(s) - 1)

Needs(n) == offset + n > Len(data)

-----------------------------------------------------------------------------
(* load: the signature and the version are read and dropped *)

Load ==
    /\ pc = "load"
    /\ LET sig == read_string(data, offset)
           ver == IF sig.ok THEN read_int(data, offset + 4, FALSE) ELSE sig
       IN  /\ offset' = ver.off
           /\ pc' = IF ver.ok THEN "chunk" ELSE "panic"
    /\ shortRead' = (shortRead \/ Needs(8))
    /\ UNCHANGED <<data, size, voxels, palette, stack, overflow_checks, tree,
                   defect, xyziLog, rgbaLog, wrapped>>

\* the Chunk { id, length, child_length, childs } initialiser of read_chunk:
\* three reads at off, off + 4 and off + 8
Header(d, off) ==
    LET id == read_string(d, off)
        length == IF id.ok THEN read_int(d, off + 4, FALSE) ELSE id
        child_length == IF length.ok THEN read_int(d, off + 8, FALSE) ELSE length
    IN  [ok |-> child_length.ok, off |-> child_length.off, id |-> id.val,
         length |-> length.val, child_length |-> child_length.val]

\* the call of read_chunk for the chunk at p whose header is h
Frame(h, p) ==
    [id |-> h.id, length |-> h.length, child_length |-> h.child_length,
     childs |-> <<>>, p |-> p, child_bytes_remaining |-> Zero]

\* chunk.id == "MAIN" && chunk.child_length > 0
IsMain(h) == h.id = TagMAIN /\ h.child_length # Zero

(* read_chunk: the buffer ends within the header *)
HeaderShort ==
    /\ pc = "chunk"
    /\ LET hd == Header(data, offset) IN
        /\ ~hd.ok
        /\ offset' = hd.off
        /\ pc' = "panic"
        /\ shortRead' = (shortRead \/ Needs(HeaderLen))
        /\ UNCHANGED <<data, size, voxels, palette, stack, overflow_checks, tree,
                       defect, xyziLog, rgbaLog, wrapped>>

(* read_chunk, chunk.id == "MAIN" && chunk.child_length > 0: the loop is    *)
(* entered and calls read_chunk for the first child                        *)
EnterMain ==
    /\ pc = "chunk"
    /\ LET hd == Header(data, offset) IN
        /\ hd.ok
        /\ IsMain(hd)
        /\ stack' = Append(stack, [Frame(hd, offset) EXCEPT
                                       !.child_bytes_remaining = hd.child_length])
        /\ offset' = offset + HeaderLen
        /\ pc' = "chunk"
        /\ shortRead' = (shortRead \/ Needs(HeaderLen))
        /\ UNCHANGED <<data, size, voxels, palette, overflow_checks, tree,
                       defect, xyziLog, rgbaLog, wrapped>>

(* read_chunk, chunk.id == "SIZE" *)
ReadSize ==
    /\ pc = "chunk"
    /\ LET hd == Header(data, offset) IN
        /\ hd.ok
        /\ ~IsMain(hd)
        /\ hd.id = TagSIZE
        /\ stack' = Append(stack, Frame(hd, offset))
        /\ LET at == offset + HeaderLen
               x == read_int(data, at, FALSE)
               y == IF x.ok THEN read_int(data, at + 4, FALSE) ELSE x
               z == IF y.ok THEN read_int(data, at + 8, FALSE) ELSE y
           IN  /\ size' = [x |-> IF x.ok THEN x.val ELSE size.x,
                           y |-> IF y.ok THEN y.val ELSE size.y,
                           z |-> IF z.ok THEN z.val ELSE size.z]
               /\ offset' = z.off
               /\ pc' = IF z.ok THEN "return" ELSE "panic"
        /\ shortRead' = (shortRead \/ Needs(HeaderLen + 12))
        /\ UNCHANGED <<data, voxels, palette, overflow_checks, tree, defect,
                       xyziLog, rgbaLog, wrapped>>

\* variant: the voxels are added to the last layer
PushLayer_merge(layers, layer) ==
    IF layers = <<>> THEN <<layer>>
    ELSE [layers EXCEPT ![Len(layers)] = @ \o layer]

\* self.voxels.push(voxels)
PushLayer(layers, layer) == Append(layers, layer)

(* read_chunk, chunk.id == "XYZI" *)
ReadXYZI ==
    /\ pc = "chunk"
    /\ LET hd == Header(data, offset) IN
        /\ hd.ok
        /\ ~IsMain(hd)
        /\ hd.id = TagXYZI
        /\ stack' = Append(stack, Frame(hd, offset))
        /\ xyziLog' = Append(xyziLog, offset + HeaderLen)
        /\ LET at == offset + HeaderLen
               num_voxels == read_int(data, at, FALSE)
           IN  IF ~num_voxels.ok
               THEN /\ offset' = num_voxels.off
                    /\ pc' = "panic"
                    /\ shortRead' = TRUE
                    /\ voxels' = voxels
               ELSE LET got == Fit(data, at + 4, num_voxels.val)
                        layer == [j \in 1..got |-> ReadVoxel(data, at + 4 * j)]
                    IN  IF IsNat(num_voxels.val, got)
                        THEN /\ offset' = at + 4 + 4 * got
                             /\ pc' = "return"
                             /\ shortRead' = shortRead
                             /\ voxels' = PushLayer(voxels, layer)
                        ELSE /\ offset' = Len(data)
                             /\ pc' = "panic"
                             /\ shortRead' = TRUE
                             /\ voxels' = voxels
        /\ UNCHANGED <<data, size, palette, overflow_checks, tree, defect,
                       rgbaLog, wrapped>>

(* read_chunk, chunk.id == "RGBA" *)
ReadRGBA ==
    /\ pc = "chunk"
    /\ LET hd == Header(data, offset) IN
        /\ hd.ok
        /\ ~IsMain(hd)
        /\ hd.id = TagRGBA
        /\ stack' = Append(stack, Frame(hd, offset))
        /\ rgbaLog' = Append(rgbaLog, [at |-> offset + HeaderLen,
                                       length |-> hd.length])
        /\ LET at == offset + HeaderLen
               got == Fit(data, at, U32(PaletteLen))
               colors == [i \in 1..got |-> read_int(data, at + 4 * (i - 1), TRUE).val]
           IN  /\ palette' = palette \o colors
               /\ IF got = PaletteLen
                  THEN /\ offset' = at + 4 * PaletteLen
                       /\ pc' = "return"
                  ELSE /\ offset' = Len(data)
                       /\ pc' = "panic"
        /\ shortRead' = (shortRead \/ Needs(HeaderLen + 4 * PaletteLen))
        /\ UNCHANGED <<data, size, voxels, overflow_checks, tree, defect,
                       xyziLog, wrapped>>

(* read_chunk, any other tag: println!("unsupported chunk type {}") *)
Unsupported ==
    /\ pc = "chunk"
    /\ LET hd == Header(data, offset) IN
        /\ hd.ok
        /\ ~IsMain(hd)
        /\ hd.id \notin {TagSIZE, TagXYZI, TagRGBA}
        /\ stack' = Append(stack, Frame(hd, offset))
        /\ offset' = offset + HeaderLen
        /\ pc' = "return"
        /\ shortRead' = (shortRead \/ Needs(HeaderLen))
        /\ UNCHANGED <<data, size, voxels, palette, overflow_checks,
                       tree, defect, xyziLog, rgbaLog, wrapped>>

\* variant: the loop reads again where its last child started
NextChildAt_rewind(off, child) == child.p

\* where the loop of MAIN reads its next child: where the last one stopped
NextChildAt(off, child) == off

(* read_chunk returns to the loop of its parent MAIN chunk:                *)
(*   child_bytes_remaining -= child_chunk.length + 12;                     *)
(*   chunk.childs.push(child_chunk); and the test of the while loop        *)
ChildReturn ==
    /\ pc = "return"
    /\ Len(stack) >= 2
    /\ LET child == Top
           parent == stack[Len(stack) - 1]
           sum == U32Add(child.length, U32(HeaderLen))
           diff == U32Sub(parent.child_bytes_remaining, sum.val)
           overflows == sum.overflow \/ diff.overflow
       IN  /\ wrapped' = (wrapped \/ overflows)
           /\ \/ \* a build with overflow checks: "attempt to subtract with overflow"
                 /\ overflows
                 /\ overflow_checks = "unknown"
                 /\ overflow_checks' = "on"
                 /\ pc' = "panic"
                 /\ stack' = stack
                 /\ offset' = offset
              \/ \* no overflow, or a build without the checks: the u32 wraps
                 /\ overflow_checks' = IF overflows THEN "off" ELSE overflow_checks
                 /\ stack' = [Pop(stack) EXCEPT ![Len(stack) - 1] =
                                   [@ EXCEPT !.child_bytes_remaining = diff.val,
                                             !.childs = Append(@, child.id)]]
                 /\ pc' = IF diff.val # Zero THEN "chunk" ELSE "return"
                 /\ offset' = IF diff.val # Zero THEN NextChildAt(offset, child)
                                                 ELSE offset
    /\ UNCHANGED <<data, size, voxels, palette, tree, defect,
                   xyziLog, rgbaLog, shortRead>>

\* variant: only a palette that is too short is replaced
NeedsDefault_less(p) == Len(p) < PaletteLen

\* vl.palette.len() != 256
NeedsDefault(p) == Len(p) # PaletteLen

(* the root read_chunk returns to load, load to new; the palette is fixed  *)
(* up and the loader returned                                              *)
Finish ==
    /\ pc = "return"
    /\ Len(stack) = 1
    /\ stack' = <<>>
    /\ palette' = IF NeedsDefault(palette) THEN DefaultPalette ELSE palette
    /\ pc' = "done"
    /\ UNCHANGED <<data, offset, size, voxels, overflow_checks, tree, defect,
                   xyziLog, rgbaLog, shortRead, wrapped>>

Next ==
    \/ Load
    \/ HeaderShort
    \/ EnterMain
    \/ ReadSize
    \/ ReadXYZI
    \/ ReadRGBA
    \/ Unsupported
    \/ ChildReturn
    \/ Finish

Spec == Init /\ [][Next]_vars

Terminated == pc \in {"done", "panic"}

-----------------------------------------------------------------------------
(* Properties *)

\* a file whose defect is "none" and whose children are plain is laid out as
\* the format prescribes: every chunk is its header, its declared content and
\* its declared children, and the root declares the exact sum of its children
WellFormed == defect = "none" /\ \A i \in 1..Len(tree) : ItemPlain(tree[i])

\* the big-endian u32 of the i-th group of four bytes of a payload
Group(payload, i) ==
    <<payload[4 * i - 3] * 256 + payload[4 * i - 2],
      payload[4 * i - 1] * 256 + payload[4 * i]>>

\* C1: whenever new returns a loader, its palette has exactly 256 entries,
\* whether the reader dispatched on zero, one or several RGBA chunks.
C1_PaletteHas256 == pc = "done" => Len(palette) = PaletteLen

C1_Witness == pc = "done" /\ Len(rgbaLog) >= 2 /\ Len(palette) = PaletteLen

\* C2: for a well-formed file whose chunk tree holds no RGBA chunk and whose
\* decode completes, the palette returned is the default table, entry for
\* entry, its first entry being 0x0.
C2_NoRGBAGivesDefault ==
    (pc = "done" /\ WellFormed /\ \A i \in 1..Len(tree) : tree[i] \notin {"RGBA", "RGBA0"})
        => (palette = DefaultPalette /\ palette[1] = Zero)

\* C3: for a well-formed file holding one RGBA chunk of 256 four-byte entries
\* and no other RGBA chunk, after the decode palette[i] is the big-endian u32
\* of the i-th group of four bytes of that chunk's payload.
C3_RGBARoundTrip ==
    (/\ pc = "done"
     /\ WellFormed
     /\ Cardinality({i \in 1..Len(tree) : tree[i] = "RGBA"}) = 1
     /\ \A i \in 1..Len(tree) : tree[i] # "RGBA0")
        => (/\ Len(palette) = PaletteLen
            /\ \A i \in 1..PaletteLen : palette[i] = Group(Colours(3), i))

\* C4: while the decode has not failed, there is one layer per XYZI chunk the
\* reader dispatched on, in the order of the stream; the k-th layer has the
\* number of voxels the k-th chunk declares and its j-th voxel is made of the
\* j-th group of four bytes x, y, z, c after that count.
C4_OneLayerPerXYZI ==
    pc # "panic" =>
        /\ Len(voxels) = Len(xyziLog)
        /\ \A k \in 1..Len(voxels) :
              LET q == xyziLog[k]
                  n == Len(voxels[k])
              IN  /\ <<data[q + 4] * 256 + data[q + 3], data[q + 2] * 256 + data[q + 1]>> = U32(n)
                  /\ \A j \in 1..n :
                        voxels[k][j] = [x |-> data[q + 4 * j + 1], y |-> data[q + 4 * j + 2],
                                        z |-> data[q + 4 * j + 3], c |-> data[q + 4 * j + 4]]

C4_Witness ==
    /\ pc = "done"
    /\ Len(voxels) = 2
    /\ Len(voxels[1]) = 2
    /\ Len(voxels[2]) = 1
    /\ voxels[1][2] = [x |-> 4, y |-> 5, z |-> 6, c |-> 20]

\* C5: when the root MAIN chunk of a well-formed file returns, the cursor is
\* exactly its declared children length past its header and the remaining
\* children bytes are zero, whatever the tags of the children.
C5_ChildrenConsumedExactly ==
    (pc = "return" /\ Len(stack) = 1 /\ Top.id = TagMAIN /\ tree # <<>> /\ WellFormed)
        => (/\ offset = Top.p + HeaderLen + Account(tree)
            /\ Top.child_bytes_remaining = Zero)

\* C6: once subtracting a child's content_length + 12 has taken the remaining
\* children bytes out of range, the decode has stopped with an error: the loop
\* does not go on with a wrapped counter.
C6_MismatchStops == wrapped => pc = "panic"

\* C7: the cursor stays within 0..len(data), and once a primitive read has
\* needed more bytes than remained the decode has failed: it is never running
\* on and no loader is returned.
C7_ShortReadFails ==
    /\ offset \in 0..Len(data)
    /\ shortRead => pc = "panic"

C7_Witness == shortRead /\ pc = "panic" /\ offset = Len(data) /\ defect = "cutTail"

\* C8: whenever read_chunk returns for a chunk that started at p with declared
\* content length L and children length C, the cursor is p + 12 + L + C.
C8_CursorPastChunk ==
    pc = "return" =>
        /\ Top.length[1] = 0
        /\ Top.child_length[1] = 0
        /\ offset = Top.p + HeaderLen + Top.length[2] + Top.child_length[2]

\* C9: an RGBA chunk the reader dispatches on whose declared content length
\* is not 1024 makes the decode fail; no palette entries are taken from it
\* with the decode going on.
C9_MisSizedRGBARejected ==
    \A i \in 1..Len(rgbaLog) : rgbaLog[i].length # U32(4 * PaletteLen) => pc = "panic"

\* a measure of the work left: the bytes ahead of the cursor, the calls of
\* read_chunk still open and the position within the current call
Rank(p) ==
    CASE p = "load" -> 3
      [] p = "chunk" -> 2
      [] p = "return" -> 1
      [] OTHER -> 0

Variant == (Len(data) - offset) + 2 * Len(stack) + Rank(pc)

\* C10: every decode ends, in a returned loader or in a failure: each step of
\* the decode lowers a measure that is never negative, so no input makes the
\* child loop or the recursion run forever, a wrapped child accounting
\* included; a read_chunk that returns has its caller waiting; the cursor never
\* moves back and every read_chunk that returns has moved it at least 12 bytes
\* on.
C10_Terminates ==
    /\ [][Variant' < Variant /\ offset' >= offset]_vars
    /\ [](Variant >= 0)
    /\ [](pc = "return" => Len(stack) >= 1)
    /\ [](pc = "return" => offset >= Top.p + HeaderLen)

C10_Witness == Terminated /\ wrapped /\ overflow_checks = "off" /\ Len(stack) >= 1

====
